---- MODULE Spec2Model ----
(***************************************************************************)
(* MIT 6.006 lecture 2: DynamicArraySequence (table doubling) and the Set  *)
(* stored in a DynamicArraySequence of SetPairs.                           *)
(*                                                                         *)
(* Python lists are modelled as TLA+ sequences; Python index i is TLA+     *)
(* index i + 1.  None is the empty tuple, a sequence item x is the tuple   *)
(* <<x>>, SetPair(k, v) is the tuple <<k, v>>.                             *)
(*                                                                         *)
(* Homework 2: the fast/slow pointer walk on a CycleLinkedList; lecture 3: *)
(* Sort.selection_sort and Sort.insertion_sort.                            *)
(***************************************************************************)
EXTENDS Integers, Sequences, FiniteSets, TLC

VARIABLES dyn_seq, dyn_set, call, inserts, deletes, reallocs, cycle, sort

vars == <<dyn_seq, dyn_set, call, inserts, deletes, reallocs, cycle, sort>>

\* ------------------------------------------------------------------------
\* Bounds of the model
\* ------------------------------------------------------------------------
MaxOps == 6
MaxVal == 2
MaxAppend == 9
MaxAny == 3
MaxKey == 3
MaxNodes == 6
MaxItem == 3
MaxSortLen == 4

Elems == {<<v>> : v \in 1..MaxVal}
Keys == 1..MaxKey
\* the code never looks at a value: two tell an overwrite from a no-op
Values == {1, 2}
Tuples == {<<k, v>> : k \in Keys, v \in Values}

\* ------------------------------------------------------------------------
\* Python values
\* ------------------------------------------------------------------------
None == <<>>
NoError == "NoError"
IndexError == "IndexError"
AttributeError == "AttributeError"
ValueError == "ValueError"

Max(a, b) == IF a > b THEN a ELSE b

\* range(n): 0, 1, ..., n - 1 (empty when n <= 0)
Range(n) == [p \in 1..Max(n, 0) |-> p - 1]

\* range(n - 1, -1, -1): n - 1, ..., 1, 0 (empty when n <= 0)
RangeDown(n) == [p \in 1..Max(n, 0) |-> n - p]

\* list subscript: a negative index counts from the end, anything outside
\* [-len, len) raises IndexError
InRange(A, i) == i >= 0 - Len(A) /\ i < Len(A)

Norm(A, i) == IF i < 0 THEN i + Len(A) ELSE i

ListGet(A, i) == A[Norm(A, i) + 1]

ListSet(A, i, x) == [A EXCEPT ![Norm(A, i) + 1] = x]

\* [None] * m
NoneList(m) == [p \in 1..Max(m, 0) |-> None]

\* ------------------------------------------------------------------------
\* ArraySequence / DynamicArraySequence
\* An object is [A, size, r, upper, lower]; a method yields
\* [self, ret, exc, alloc]: the object after the call, the returned value,
\* the exception that left the call (NoError when it returned) and whether
\* _resize allocated a new buffer.
\* ------------------------------------------------------------------------
Res(self, ret, exc, alloc) ==
    [self |-> self, ret |-> ret, exc |-> exc, alloc |-> alloc]

\* the loop of _copy_forward / _copy_backward: A[j + k] = self.A[i + k] for
\* k in ks; same tells that A is self.A itself, so that reads see the writes
RECURSIVE CopyLoop(_, _, _, _, _, _)
CopyLoop(src, i, ks, A, j, same) ==
    IF ks = <<>> THEN [A |-> A, exc |-> NoError]
    ELSE LET k == Head(ks) IN
         IF ~InRange(src, i + k) \/ ~InRange(A, j + k)
         THEN [A |-> A, exc |-> IndexError]
         ELSE LET A2 == ListSet(A, j + k, ListGet(src, i + k)) IN
              CopyLoop(IF same THEN A2 ELSE src, i, Tail(ks), A2, j, same)

_copy_forward(src, i, n, A, j, same) == CopyLoop(src, i, Range(n), A, j, same)

_copy_backward(src, i, n, A, j, same) ==
    CopyLoop(src, i, RangeDown(n), A, j, same)

\* DynamicArraySequence.__init__
NewDynamicArraySequence(r) ==
    [A |-> <<>>, size |-> 0, r |-> r, upper |-> 0, lower |-> 0]

_compute_bounds(self) ==
    [self EXCEPT !.upper = Len(self.A),
                 !.lower = Len(self.A) \div (self.r * self.r)]

\* _resize growing the buffer by one slot instead of by the factor r
_resize_additive(self, n) ==
    IF self.lower < n /\ n < self.upper THEN Res(self, None, NoError, FALSE)
    ELSE LET m == Max(n, 1) + 1
             cp == _copy_forward(self.A, 0, self.size, NoneList(m), 0, FALSE)
         IN IF cp.exc # NoError THEN Res(self, None, cp.exc, FALSE)
            ELSE Res(_compute_bounds([self EXCEPT !.A = cp.A]),
                     None, NoError, TRUE)

\* _resize without the early return: every call allocates
_resize_always(self, n) ==
    LET m == Max(n, 1) * self.r
        cp == _copy_forward(self.A, 0, self.size, NoneList(m), 0, FALSE)
    IN IF cp.exc # NoError THEN Res(self, None, cp.exc, FALSE)
       ELSE Res(_compute_bounds([self EXCEPT !.A = cp.A]), None, NoError, TRUE)

\* _resize keeping the buffer when n = lower (lower <= n < upper)
_resize_late(self, n) ==
    IF self.lower <= n /\ n < self.upper THEN Res(self, None, NoError, FALSE)
    ELSE LET m == Max(n, 1) * self.r
             cp == _copy_forward(self.A, 0, self.size, NoneList(m), 0, FALSE)
         IN IF cp.exc # NoError THEN Res(self, None, cp.exc, FALSE)
            ELSE Res(_compute_bounds([self EXCEPT !.A = cp.A]),
                     None, NoError, TRUE)

\* _resize keeping the buffer when n = upper (lower < n <= upper), so that
\* the buffer is grown only once it is full
_resize_full(self, n) ==
    IF self.lower < n /\ n <= self.upper THEN Res(self, None, NoError, FALSE)
    ELSE LET m == Max(n, 1) * self.r
             cp == _copy_forward(self.A, 0, self.size, NoneList(m), 0, FALSE)
         IN IF cp.exc # NoError THEN Res(self, None, cp.exc, FALSE)
            ELSE Res(_compute_bounds([self EXCEPT !.A = cp.A]),
                     None, NoError, TRUE)

_resize(self, n) ==
    IF self.lower < n /\ n < self.upper THEN Res(self, None, NoError, FALSE)
    ELSE LET m == Max(n, 1) * self.r
             cp == _copy_forward(self.A, 0, self.size, NoneList(m), 0, FALSE)
         IN IF cp.exc # NoError THEN Res(self, None, cp.exc, FALSE)
            ELSE Res(_compute_bounds([self EXCEPT !.A = cp.A]),
                     None, NoError, TRUE)

get_at(self, i) ==
    IF InRange(self.A, i) THEN Res(self, ListGet(self.A, i), NoError, FALSE)
    ELSE Res(self, None, IndexError, FALSE)

set_at(self, i, x) ==
    IF InRange(self.A, i)
    THEN Res([self EXCEPT !.A = ListSet(self.A, i, x)], None, NoError, FALSE)
    ELSE Res(self, None, IndexError, FALSE)

insert_last(self, x) ==
    LET rs == _resize(self, self.size + 1)
        s1 == rs.self
    IN IF rs.exc # NoError THEN rs
       ELSE IF ~InRange(s1.A, s1.size) THEN Res(s1, None, IndexError, rs.alloc)
       ELSE Res([s1 EXCEPT !.A = ListSet(s1.A, s1.size, x),
                           !.size = s1.size + 1],
                None, NoError, rs.alloc)

\* delete_last that never shrinks the buffer (no _resize call)
delete_last_noshrink(self) ==
    IF ~InRange(self.A, self.size - 1) THEN Res(self, None, IndexError, FALSE)
    ELSE Res([self EXCEPT !.A = ListSet(self.A, self.size - 1, None),
                          !.size = self.size - 1],
             ListGet(self.A, self.size - 1), NoError, FALSE)

\* delete_last that leaves the deleted item in its slot (no A[size - 1] = None)
delete_last_keep(self) ==
    IF ~InRange(self.A, self.size - 1) THEN Res(self, None, IndexError, FALSE)
    ELSE LET x == ListGet(self.A, self.size - 1)
             s1 == [self EXCEPT !.size = self.size - 1]
             rs == _resize(s1, s1.size)
         IN IF rs.exc # NoError THEN rs
            ELSE Res(rs.self, x, NoError, rs.alloc)

delete_last(self) ==
    IF ~InRange(self.A, self.size - 1) THEN Res(self, None, IndexError, FALSE)
    ELSE LET x == ListGet(self.A, self.size - 1)
             s1 == [self EXCEPT !.A = ListSet(self.A, self.size - 1, None),
                                !.size = self.size - 1]
             rs == _resize(s1, s1.size)
         IN IF rs.exc # NoError THEN rs
            ELSE Res(rs.self, x, NoError, rs.alloc)

\* insert_at shifting with the forward copy, which overwrites items before
\* it has read them
insert_at_forward(self, i, x) ==
    LET il == insert_last(self, None)
        s1 == il.self
        cp == _copy_forward(s1.A, i, s1.size - (i + 1), s1.A, i + 1, TRUE)
        s2 == [s1 EXCEPT !.A = cp.A]
    IN IF il.exc # NoError THEN il
       ELSE IF cp.exc # NoError THEN Res(s2, None, cp.exc, il.alloc)
       ELSE IF ~InRange(s2.A, i) THEN Res(s2, None, IndexError, il.alloc)
       ELSE Res([s2 EXCEPT !.A = ListSet(s2.A, i, x)], None, NoError, il.alloc)

\* insert_at that takes only the indices of stored items: i = size is refused
insert_at_strict(self, i, x) ==
    IF i < 0 \/ i >= self.size THEN Res(self, None, IndexError, FALSE)
    ELSE LET il == insert_last(self, None)
             s1 == il.self
             cp == _copy_backward(s1.A, i, s1.size - (i + 1), s1.A, i + 1,
                                  TRUE)
             s2 == [s1 EXCEPT !.A = cp.A]
         IN IF il.exc # NoError THEN il
            ELSE IF cp.exc # NoError THEN Res(s2, None, cp.exc, il.alloc)
            ELSE Res([s2 EXCEPT !.A = ListSet(s2.A, i, x)], None, NoError,
                     il.alloc)

insert_at(self, i, x) ==
    LET il == insert_last(self, None)
        s1 == il.self
        cp == _copy_backward(s1.A, i, s1.size - (i + 1), s1.A, i + 1, TRUE)
        s2 == [s1 EXCEPT !.A = cp.A]
    IN IF il.exc # NoError THEN il
       ELSE IF cp.exc # NoError THEN Res(s2, None, cp.exc, il.alloc)
       ELSE IF ~InRange(s2.A, i) THEN Res(s2, None, IndexError, il.alloc)
       ELSE Res([s2 EXCEPT !.A = ListSet(s2.A, i, x)], None, NoError, il.alloc)

\* delete_at shifting with the backward copy, which overwrites items before
\* it has read them
delete_at_backward(self, i) ==
    IF ~InRange(self.A, i) THEN Res(self, None, IndexError, FALSE)
    ELSE LET x == ListGet(self.A, i)
             cp == _copy_backward(self.A, i + 1, self.size - (i + 1),
                                  self.A, i, TRUE)
             s1 == [self EXCEPT !.A = cp.A]
             dl == delete_last(s1)
         IN IF cp.exc # NoError THEN Res(s1, None, cp.exc, FALSE)
            ELSE IF dl.exc # NoError THEN dl
            ELSE Res(dl.self, x, NoError, dl.alloc)

delete_at(self, i) ==
    IF ~InRange(self.A, i) THEN Res(self, None, IndexError, FALSE)
    ELSE LET x == ListGet(self.A, i)
             cp == _copy_forward(self.A, i + 1, self.size - (i + 1),
                                 self.A, i, TRUE)
             s1 == [self EXCEPT !.A = cp.A]
             dl == delete_last(s1)
         IN IF cp.exc # NoError THEN Res(s1, None, cp.exc, FALSE)
            ELSE IF dl.exc # NoError THEN dl
            ELSE Res(dl.self, x, NoError, dl.alloc)

insert_first(self, x) == insert_at(self, 0, x)

delete_first(self) == delete_at(self, 0)

\* build putting every item at the front (insert_first), which reverses X
RECURSIVE build_front(_, _, _)
build_front(self, X, alloc) ==
    IF X = <<>> THEN Res(self, None, NoError, alloc)
    ELSE LET il == insert_first(self, Head(X)) IN
         IF il.exc # NoError THEN Res(il.self, None, il.exc, alloc \/ il.alloc)
         ELSE build_front(il.self, Tail(X), alloc \/ il.alloc)

\* DynamicArraySequence.build: insert_last of every item of X, in order
RECURSIVE build(_, _, _)
build(self, X, alloc) ==
    IF X = <<>> THEN Res(self, None, NoError, alloc)
    ELSE LET il == insert_last(self, Head(X)) IN
         IF il.exc # NoError THEN Res(il.self, None, il.exc, alloc \/ il.alloc)
         ELSE build(il.self, Tail(X), alloc \/ il.alloc)

\* the live part of the buffer: the slots at indices [0, size)
Live(self) == [p \in 1..Max(self.size, 0) |-> self.A[p]]

\* ------------------------------------------------------------------------
\* SetPair and Set (self.KV is a DynamicArraySequence of SetPairs)
\* ------------------------------------------------------------------------
SetPair(k, v) == <<k, v>>

key(kv) == kv[1]

value(kv) == kv[2]

\* Set.__init__: KV = DynamicArraySequence() with the default r
NewSet == [KV |-> NewDynamicArraySequence(2)]

SetRes(self, kvres) ==
    Res([self EXCEPT !.KV = kvres.self], kvres.ret, kvres.exc, kvres.alloc)

Set_build(self, X) ==
    SetRes(self, build(self.KV, [p \in 1..Len(X) |-> SetPair(X[p][1], X[p][2])],
                       FALSE))

\* the scan of Set.insert leaving an existing key as it is (no set_at)
RECURSIVE InsertScan_keep(_, _, _)
InsertScan_keep(self, pair, i) ==
    IF i >= self.KV.size THEN SetRes(self, insert_last(self.KV, pair))
    ELSE LET g == get_at(self.KV, i) IN
         IF g.exc # NoError THEN Res(self, None, g.exc, FALSE)
         ELSE IF g.ret = None THEN Res(self, None, AttributeError, FALSE)
         ELSE IF key(g.ret) = key(pair) THEN Res(self, None, NoError, FALSE)
         ELSE InsertScan_keep(self, pair, i + 1)

\* for i in range(len(self.KV)) of Set.insert, from index i on
RECURSIVE InsertScan(_, _, _)
InsertScan(self, pair, i) ==
    IF i >= self.KV.size THEN SetRes(self, insert_last(self.KV, pair))
    ELSE LET g == get_at(self.KV, i) IN
         IF g.exc # NoError THEN Res(self, None, g.exc, FALSE)
         ELSE IF g.ret = None THEN Res(self, None, AttributeError, FALSE)
         ELSE IF key(g.ret) = key(pair) THEN SetRes(self, set_at(self.KV, i, pair))
         ELSE InsertScan(self, pair, i + 1)

\* Set.insert without the scan for an existing key
insert_noscan(self, x) == SetRes(self, insert_last(self.KV, SetPair(x[1], x[2])))

insert(self, x) == InsertScan(self, SetPair(x[1], x[2]), 0)

\* for kv in self.KV of Set.find: ArraySequence.__iter__ yields every slot
\* of the buffer self.A, from (TLA+) position p on
RECURSIVE FindScan(_, _, _)
FindScan(self, k, p) ==
    IF p > Len(self.KV.A) THEN Res(self, None, NoError, FALSE)
    ELSE LET kv == self.KV.A[p] IN
         IF kv = None THEN Res(self, None, AttributeError, FALSE)
         ELSE IF key(kv) = k THEN Res(self, <<key(kv), value(kv)>>, NoError, FALSE)
         ELSE FindScan(self, k, p + 1)

find(self, k) == FindScan(self, k, 1)

\* for i in range(len(self.KV)) of Set.delete, from index i on
RECURSIVE DeleteScan(_, _, _)
DeleteScan(self, k, i) ==
    IF i >= self.KV.size THEN Res(self, None, NoError, FALSE)
    ELSE LET g == get_at(self.KV, i) IN
         IF g.exc # NoError THEN Res(self, None, g.exc, FALSE)
         ELSE IF g.ret = None THEN Res(self, None, AttributeError, FALSE)
         ELSE IF key(g.ret) = k
              THEN LET d == delete_at(self.KV, i) IN
                   Res([self EXCEPT !.KV = d.self], None, d.exc, d.alloc)
         ELSE DeleteScan(self, k, i + 1)

delete(self, k) == DeleteScan(self, k, 0)

\* [(kv.key, kv.value) for kv in self.KV if kv != None]
TupleList(self) ==
    LET live == SelectSeq(self.KV.A, LAMBDA kv : kv # None)
    IN [p \in 1..Len(live) |-> <<key(live[p]), value(live[p])>>]

\* sorted(L, key = lambda x : x[0], reverse = reverse): a stable sort, so
\* items with equal keys keep their order in L, also when reverse is set
Before(a, b, reverse) == IF reverse THEN a[1] > b[1] ELSE a[1] < b[1]

RECURSIVE SortInsert(_, _, _)
SortInsert(S, t, reverse) ==
    IF S = <<>> THEN <<t>>
    ELSE IF Before(t, S[Len(S)], reverse)
         THEN Append(SortInsert(SubSeq(S, 1, Len(S) - 1), t, reverse),
                     S[Len(S)])
         ELSE Append(S, t)

RECURSIVE sorted(_, _)
sorted(L, reverse) ==
    IF L = <<>> THEN <<>>
    ELSE SortInsert(sorted(SubSeq(L, 1, Len(L) - 1), reverse),
                    L[Len(L)], reverse)

\* iter_ord returning the pairs in buffer order (no sort)
iter_ord_unsorted(self) == Res(self, TupleList(self), NoError, FALSE)

iter_ord(self) == Res(self, sorted(TupleList(self), FALSE), NoError, FALSE)

\* min(L, key = ...) / max(L, key = ...): the first item with the least /
\* greatest key, ValueError on an empty list
FirstBest(L, reverse) ==
    LET p == CHOOSE q \in 1..Len(L) :
                 /\ \A u \in 1..Len(L) : ~Before(L[u], L[q], reverse)
                 /\ \A u \in 1..(q - 1) : L[u][1] # L[q][1]
    IN L[p]

find_min_first(self) ==
    LET tuple_list == TupleList(self) IN
    IF tuple_list = <<>> THEN Res(self, None, ValueError, FALSE)
    ELSE Res(self, tuple_list[1], NoError, FALSE)

find_min(self) ==
    LET tuple_list == TupleList(self) IN
    IF tuple_list = <<>> THEN Res(self, None, ValueError, FALSE)
    ELSE Res(self, FirstBest(tuple_list, FALSE), NoError, FALSE)

find_max_none(self) ==
    LET tuple_list == TupleList(self) IN
    IF tuple_list = <<>> THEN Res(self, None, NoError, FALSE)
    ELSE Res(self, FirstBest(tuple_list, TRUE), NoError, FALSE)

find_max(self) ==
    LET tuple_list == TupleList(self) IN
    IF tuple_list = <<>> THEN Res(self, None, ValueError, FALSE)
    ELSE Res(self, FirstBest(tuple_list, TRUE), NoError, FALSE)

\* for index, kv_tuple in enumerate(tuple_result) of _find_direction, from
\* (0-based) index on
RECURSIVE DirectionScan(_, _, _, _)
DirectionScan(tuple_list, tuple_result, k, index) ==
    IF index >= Len(tuple_result) THEN None
    ELSE IF tuple_result[index + 1][1] = k /\ index < Len(tuple_result) - 1
         THEN tuple_list[index + 2]
    ELSE IF index = Len(tuple_result) - 1 THEN None
    ELSE DirectionScan(tuple_list, tuple_result, k, index + 1)

_find_direction_nearest(self, k, reverse) ==
    LET tuple_result == sorted(TupleList(self), reverse)
        beyond == SelectSeq(tuple_result,
                            LAMBDA t : Before(<<k>>, t, reverse))
    IN Res(self, IF beyond = <<>> THEN None ELSE beyond[1], NoError, FALSE)

_find_direction(self, k, reverse) ==
    LET tuple_list == TupleList(self)
        tuple_result == sorted(tuple_list, reverse)
    IN Res(self, DirectionScan(tuple_list, tuple_result, k, 0), NoError, FALSE)

find_next(self, k) == _find_direction(self, k, FALSE)

find_prev(self, k) == _find_direction(self, k, TRUE)

\* ------------------------------------------------------------------------
\* LinkedListNode, LinkedListSequence, CycleLinkedList (util/linked_list.py,
\* homework 2).  heap holds the nodes made so far, a node is [item, next],
\* a reference to the k-th node made is <<k>>, two references are the same
\* node when they are equal (LinkedListNode defines no __eq__).
\* pc, F, S, met, metF, metS follow the walk of __main__: F and S count the
\* steps of the fast and of the slow pointer, met tells that the fast
\* pointer has been found on the slow pointer's node, metF and metS are F
\* and S when that first happened.
\* ------------------------------------------------------------------------
LinkedListNode(x) == [item |-> x, next |-> None]

NewCycleLinkedList ==
    [head |-> None, size |-> 0, heap |-> <<>>, pc |-> "new",
     slow_ptr |-> None, fast_ptr |-> None, flag |-> FALSE,
     F |-> 0, S |-> 0, met |-> FALSE, metF |-> 0, metS |-> 0]

\* node.next
NextOf(self, node) == self.heap[node[1]].next

LinkedList_insert_first(self, x) ==
    [self EXCEPT !.heap = Append(self.heap,
                                 [LinkedListNode(x) EXCEPT !.next = self.head]),
                 !.head = <<Len(self.heap) + 1>>,
                 !.size = self.size + 1]

\* for a in reversed(X) : self.insert_first(a)
RECURSIVE LinkedList_build(_, _)
LinkedList_build(self, X) ==
    IF X = <<>> THEN self
    ELSE LinkedList_build(LinkedList_insert_first(self, X[Len(X)]),
                          SubSeq(X, 1, Len(X) - 1))

\* while node.next != None : node = node.next
RECURSIVE LastNode(_, _)
LastNode(self, node) ==
    IF NextOf(self, node) = None THEN node
    ELSE LastNode(self, NextOf(self, node))

change_last(self, target) ==
    LET node == LastNode(self, self.head) IN
    [self EXCEPT !.heap[node[1]].next = target]

\* if fast_ptr == slow_ptr : flag = True
CheckSame(self) ==
    IF self.fast_ptr = self.slow_ptr
    THEN [self EXCEPT !.flag = TRUE,
                      !.met = TRUE,
                      !.metF = IF self.met THEN @ ELSE self.F,
                      !.metS = IF self.met THEN @ ELSE self.S]
    ELSE self

\* fast_ptr = fast_ptr.next
FastNext(self) ==
    [self EXCEPT !.fast_ptr = NextOf(self, self.fast_ptr), !.F = self.F + 1]

\* slow_ptr = slow_ptr.next
SlowNext(self) ==
    [self EXCEPT !.slow_ptr = NextOf(self, self.slow_ptr), !.S = self.S + 1]

\* ------------------------------------------------------------------------
\* Sort (lecture 3).  sort is a call of selection_sort or insertion_sort:
\* alg the method, A0 the list as passed, A the list now, rest the indices
\* the outer loop has still to take, i the index of the last outer-loop step
\* and steps the number of outer-loop steps done.
\* ------------------------------------------------------------------------
NewSort ==
    [alg |-> "none", A0 |-> <<>>, A |-> <<>>, rest |-> <<>>, i |-> 0,
     steps |-> 0, pc |-> "new"]

\* A[a], A[b] = A[b], A[a]
Swap(A, a, b) ==
    LET x == ListGet(A, b)
        y == ListGet(A, a)
    IN ListSet(ListSet(A, a, x), b, y)

\* the inner loop of selection_sort taking the smallest item, not the largest
RECURSIVE MaxScan_min(_, _, _)
MaxScan_min(A, m, js) ==
    IF js = <<>> THEN m
    ELSE MaxScan_min(A, IF ListGet(A, m) > ListGet(A, Head(js)) THEN Head(js)
                        ELSE m,
                     Tail(js))

\* for j in range(i) : if A[m] < A[j] : m = j
RECURSIVE MaxScan(_, _, _)
MaxScan(A, m, js) ==
    IF js = <<>> THEN m
    ELSE MaxScan(A, IF ListGet(A, m) < ListGet(A, Head(js)) THEN Head(js)
                    ELSE m,
                 Tail(js))

\* the body of selection_sort's outer loop for index i
selection_step(A, i) ==
    LET m == MaxScan(A, i, Range(i)) IN Swap(A, m, i)

\* while j > 0 and A[j] < A[j - 1] : swap, j = j - 1
RECURSIVE InsertLoop(_, _)
InsertLoop(A, j) ==
    IF j > 0 /\ ListGet(A, j) < ListGet(A, j - 1)
    THEN InsertLoop(Swap(A, j - 1, j), j - 1)
    ELSE A

\* the body of insertion_sort's outer loop for index i
insertion_step(A, i) == InsertLoop(A, i)

\* range(len(A) - 1, 0, -1)
SelectionRange(n) == [p \in 1..Max(n - 1, 0) |-> n - p]

\* range(1, len(A))
InsertionRange(n) == [p \in 1..Max(n - 1, 0) |-> p]

\* ------------------------------------------------------------------------
\* The state machine.  dyn_seq is a DynamicArraySequence of items, dyn_set
\* a Set; call records the last call made (its method, arguments, returned
\* value, exception and whether it reallocated); inserts, deletes and
\* reallocs count the insert calls, the delete calls and the calls that
\* allocated a new buffer on dyn_seq.
\* ------------------------------------------------------------------------
Call(op, i, x, res) ==
    [op |-> op, i |-> i, x |-> x, ret |-> res.ret, exc |-> res.exc,
     alloc |-> res.alloc]

Init ==
    /\ dyn_seq = NewDynamicArraySequence(2)
    /\ dyn_set = NewSet
    /\ call = [op |-> "init", i |-> 0, x |-> None, ret |-> None,
               exc |-> NoError, alloc |-> FALSE]
    /\ inserts = 0
    /\ deletes = 0
    /\ reallocs = 0
    /\ cycle = NewCycleLinkedList
    /\ sort = NewSort

\* a call on dyn_seq: ins / del tell which counter a returning call bumps
SeqCall(op, i, x, res, ins, del) ==
    /\ dyn_seq' = res.self
    /\ call' = Call(op, i, x, res)
    /\ inserts' = IF ins /\ res.exc = NoError THEN inserts + 1 ELSE inserts
    /\ deletes' = IF del /\ res.exc = NoError THEN deletes + 1 ELSE deletes
    /\ reallocs' = IF res.alloc THEN reallocs + 1 ELSE reallocs
    /\ UNCHANGED <<dyn_set, cycle, sort>>

CanOp == inserts + deletes < MaxOps

InsertLast(x) ==
    /\ CanOp
    /\ SeqCall("insert_last", dyn_seq.size, x, insert_last(dyn_seq, x),
               TRUE, FALSE)

InsertAt(i, x) ==
    /\ CanOp
    /\ i >= 0 /\ i <= dyn_seq.size
    /\ SeqCall("insert_at", i, x, insert_at(dyn_seq, i, x), TRUE, FALSE)

InsertFirst(x) ==
    /\ CanOp
    /\ SeqCall("insert_first", 0, x, insert_first(dyn_seq, x), TRUE, FALSE)

DeleteLast ==
    /\ CanOp
    /\ dyn_seq.size > 0
    /\ SeqCall("delete_last", dyn_seq.size - 1, None, delete_last(dyn_seq),
               FALSE, TRUE)

DeleteAt(i) ==
    /\ CanOp
    /\ i >= 0 /\ i < dyn_seq.size
    /\ SeqCall("delete_at", i, None, delete_at(dyn_seq, i), FALSE, TRUE)

DeleteFirst ==
    /\ CanOp
    /\ dyn_seq.size > 0
    /\ SeqCall("delete_first", 0, None, delete_first(dyn_seq), FALSE, TRUE)

GetAt(i) ==
    /\ i >= 0 /\ i < dyn_seq.size
    /\ SeqCall("get_at", i, None, get_at(dyn_seq, i), FALSE, FALSE)

SetAt(i, x) ==
    /\ i >= 0 /\ i < dyn_seq.size
    /\ SeqCall("set_at", i, x, set_at(dyn_seq, i, x), FALSE, FALSE)

\* every valid call on the DynamicArraySequence
Next ==
    \/ \E x \in Elems : InsertLast(x)
    \/ \E i \in 0..MaxOps, x \in Elems : InsertAt(i, x)
    \/ \E x \in Elems : InsertFirst(x)
    \/ DeleteLast
    \/ \E i \in 0..MaxOps : DeleteAt(i)
    \/ DeleteFirst
    \/ \E i \in 0..MaxOps : GetAt(i)
    \/ \E i \in 0..MaxOps, x \in Elems : SetAt(i, x)

Spec == Init /\ [][Next]_vars

\* every valid call on a DynamicArraySequence(r) for the growth factors r
\* of Ratios
Ratios == {2, 3}

RatioInit ==
    /\ dyn_seq \in {NewDynamicArraySequence(r) : r \in Ratios}
    /\ dyn_set = NewSet
    /\ call = [op |-> "init", i |-> 0, x |-> None, ret |-> None,
               exc |-> NoError, alloc |-> FALSE]
    /\ inserts = 0
    /\ deletes = 0
    /\ reallocs = 0
    /\ cycle = NewCycleLinkedList
    /\ sort = NewSort

RatioSpec == RatioInit /\ [][Next]_vars

\* n insert_last calls on an empty sequence
AppendLast(x) ==
    /\ dyn_seq.size < MaxAppend
    /\ SeqCall("insert_last", dyn_seq.size, x, insert_last(dyn_seq, x),
               TRUE, FALSE)

AppendNext == \E x \in Elems : AppendLast(x)

AppendSpec == Init /\ [][AppendNext]_vars

\* the lists over S of length at most n
ListsUpTo(S, n) == UNION {[1..m -> S] : m \in 0..n}

\* DynamicArraySequence.build(X): Len(X) insert_last calls
Build(X) ==
    LET res == build(dyn_seq, X, FALSE) IN
    /\ dyn_seq' = res.self
    /\ call' = Call("build", 0, X, res)
    /\ inserts' = inserts + Len(X)
    /\ reallocs' = IF res.alloc THEN reallocs + 1 ELSE reallocs
    /\ UNCHANGED <<deletes, dyn_set, cycle, sort>>

\* build on a new sequence and on one that already holds items, with the
\* reads and the deletes that follow it
BuildNext ==
    \/ \E X \in ListsUpTo(Elems, MaxOps - (inserts + deletes)) : Build(X)
    \/ \E i \in 0..MaxOps : GetAt(i)
    \/ DeleteLast

BuildSpec == Init /\ [][BuildNext]_vars

\* calls with any index, in range or not; inserts and deletes count the
\* insert and delete calls made, whether they return or raise
AnyCall(op, i, x, res, ins, del) ==
    /\ dyn_seq' = res.self
    /\ call' = Call(op, i, x, res)
    /\ inserts' = IF ins THEN inserts + 1 ELSE inserts
    /\ deletes' = IF del THEN deletes + 1 ELSE deletes
    /\ reallocs' = IF res.alloc THEN reallocs + 1 ELSE reallocs
    /\ UNCHANGED <<dyn_set, cycle, sort>>

CanAny == inserts + deletes < MaxAny

Indices == (0 - (MaxAny + 1))..(MaxAny + 1)

AnyInsertLast(x) ==
    /\ CanAny
    /\ AnyCall("insert_last", dyn_seq.size, x, insert_last(dyn_seq, x),
               TRUE, FALSE)

AnyInsertAt(i, x) ==
    /\ CanAny
    /\ AnyCall("insert_at", i, x, insert_at(dyn_seq, i, x), TRUE, FALSE)

AnyInsertFirst(x) ==
    /\ CanAny
    /\ AnyCall("insert_first", 0, x, insert_first(dyn_seq, x), TRUE, FALSE)

AnyDeleteLast ==
    /\ CanAny
    /\ AnyCall("delete_last", dyn_seq.size - 1, None, delete_last(dyn_seq),
               FALSE, TRUE)

AnyDeleteAt(i) ==
    /\ CanAny
    /\ AnyCall("delete_at", i, None, delete_at(dyn_seq, i), FALSE, TRUE)

AnyDeleteFirst ==
    /\ CanAny
    /\ AnyCall("delete_first", 0, None, delete_first(dyn_seq), FALSE, TRUE)

AnyGetAt(i) == AnyCall("get_at", i, None, get_at(dyn_seq, i), FALSE, FALSE)

AnySetAt(i, x) == AnyCall("set_at", i, x, set_at(dyn_seq, i, x), FALSE, FALSE)

AnyNext ==
    \/ \E x \in Elems : AnyInsertLast(x)
    \/ \E i \in Indices, x \in Elems : AnyInsertAt(i, x)
    \/ \E x \in Elems : AnyInsertFirst(x)
    \/ AnyDeleteLast
    \/ \E i \in Indices : AnyDeleteAt(i)
    \/ AnyDeleteFirst
    \/ \E i \in Indices : AnyGetAt(i)
    \/ \E i \in Indices, x \in Elems : AnySetAt(i, x)

AnySpec == Init /\ [][AnyNext]_vars

\* the steps of homework 2's __main__ on cycle
CycleStep(c) ==
    /\ cycle' = c
    /\ UNCHANGED <<dyn_seq, dyn_set, call, inserts, deletes, reallocs, sort>>

\* cycle.build([1, 2, ..., n])
CycleBuild(X) ==
    /\ cycle.pc = "new"
    /\ CycleStep([LinkedList_build(cycle, X) EXCEPT !.pc = "built"])

\* cycle.change_last(target) for a node target of the list
ChangeLast(target) ==
    /\ cycle.pc = "built"
    /\ target[1] <= Len(cycle.heap)
    /\ CycleStep([change_last(cycle, target) EXCEPT !.pc = "start"])

\* flag = False; slow_ptr = fast_ptr = cycle.head; fast_ptr = fast_ptr.next
\* and the first check
WalkStart ==
    /\ cycle.pc = "start"
    /\ CycleStep([CheckSame(FastNext([cycle EXCEPT !.flag = FALSE,
                                                   !.slow_ptr = cycle.head,
                                                   !.fast_ptr = cycle.head]))
                     EXCEPT !.pc = "second"])

\* fast_ptr = fast_ptr.next and the second check
WalkSecond ==
    /\ cycle.pc = "second"
    /\ CycleStep([CheckSame(FastNext(cycle)) EXCEPT !.pc = "slow"])

\* slow_ptr = slow_ptr.next, before the loop and at the end of its body
WalkSlow ==
    /\ cycle.pc = "slow"
    /\ CycleStep([SlowNext(cycle) EXCEPT !.pc = "while"])

\* while flag == False
WalkWhile ==
    /\ cycle.pc = "while"
    /\ CycleStep([cycle EXCEPT !.pc = IF cycle.flag = FALSE THEN "fast1"
                                      ELSE "done"])

\* in the loop: fast_ptr = fast_ptr.next and its check
WalkFast1 ==
    /\ cycle.pc = "fast1"
    /\ CycleStep([CheckSame(FastNext(cycle)) EXCEPT !.pc = "fast2"])

\* in the loop: fast_ptr = fast_ptr.next.next and its check
WalkFast2 ==
    /\ cycle.pc = "fast2"
    /\ CycleStep([CheckSame(FastNext(FastNext(cycle))) EXCEPT !.pc = "slow"])

NodeLists == {[p \in 1..n |-> p] : n \in 1..MaxNodes}

CycleNext ==
    \/ \E X \in NodeLists : CycleBuild(X)
    \/ \E k \in 1..MaxNodes : ChangeLast(<<k>>)
    \/ WalkStart
    \/ WalkSecond
    \/ WalkSlow
    \/ WalkWhile
    \/ WalkFast1
    \/ WalkFast2

CycleSpec == Init /\ [][CycleNext]_vars

\* the steps of a Sort call
SortStep(s) ==
    /\ sort' = s
    /\ UNCHANGED <<dyn_seq, dyn_set, call, inserts, deletes, reallocs, cycle>>

SelectionSort(A) ==
    SortStep([alg |-> "selection_sort", A0 |-> A, A |-> A,
              rest |-> SelectionRange(Len(A)), i |-> 0, steps |-> 0,
              pc |-> "loop"])

InsertionSort(A) ==
    SortStep([alg |-> "insertion_sort", A0 |-> A, A |-> A,
              rest |-> InsertionRange(Len(A)), i |-> 0, steps |-> 0,
              pc |-> "loop"])

\* one step of the outer loop of selection_sort
SelectionStep ==
    /\ sort.pc = "loop"
    /\ sort.alg = "selection_sort"
    /\ sort.rest # <<>>
    /\ SortStep([sort EXCEPT !.A = selection_step(sort.A, Head(sort.rest)),
                             !.i = Head(sort.rest),
                             !.rest = Tail(sort.rest),
                             !.steps = sort.steps + 1])

\* one step of the outer loop of insertion_sort
InsertionStep ==
    /\ sort.pc = "loop"
    /\ sort.alg = "insertion_sort"
    /\ sort.rest # <<>>
    /\ SortStep([sort EXCEPT !.A = insertion_step(sort.A, Head(sort.rest)),
                             !.i = Head(sort.rest),
                             !.rest = Tail(sort.rest),
                             !.steps = sort.steps + 1])

\* the outer loop has taken every index: the call returns
SortReturn ==
    /\ sort.pc = "loop"
    /\ sort.rest = <<>>
    /\ SortStep([sort EXCEPT !.pc = "done"])

SortNext ==
    \/ sort.pc = "new" /\ \E A \in ListsUpTo(1..MaxItem, MaxSortLen) :
                              SelectionSort(A)
    \/ sort.pc = "new" /\ \E A \in ListsUpTo(1..MaxItem, MaxSortLen) :
                              InsertionSort(A)
    \/ SelectionStep
    \/ InsertionStep
    \/ SortReturn

\* a call runs until it returns
SortSpec == Init /\ [][SortNext]_vars /\ WF_vars(SortNext)

\* a call on dyn_set
SetCall(op, x, res) ==
    /\ dyn_set' = res.self
    /\ call' = Call(op, 0, x, res)
    /\ UNCHANGED <<dyn_seq, inserts, deletes, reallocs, cycle, sort>>

HasKey(self, k) == \E p \in 1..self.KV.size : key(self.KV.A[p]) = k

SetBuild(X) == SetCall("build", X, Set_build(dyn_set, X))

SetInsert(k, v) ==
    /\ HasKey(dyn_set, k) \/ dyn_set.KV.size < MaxKey
    /\ SetCall("insert", <<k, v>>, insert(dyn_set, <<k, v>>))

SetDelete(k) == SetCall("delete", <<k>>, delete(dyn_set, k))

SetFind(k) == SetCall("find", <<k>>, find(dyn_set, k))

SetIterOrd == SetCall("iter_ord", None, iter_ord(dyn_set))

SetFindMin == SetCall("find_min", None, find_min(dyn_set))

SetFindMax == SetCall("find_max", None, find_max(dyn_set))

SetFindNext(k) == SetCall("find_next", <<k>>, find_next(dyn_set, k))

SetFindPrev(k) == SetCall("find_prev", <<k>>, find_prev(dyn_set, k))

\* the calls that make and change a Set; build makes a Set from an initial
\* list, so it is called on a new Set
SetChange ==
    \/ dyn_set = NewSet /\ \E X \in ListsUpTo(Tuples, MaxKey) : SetBuild(X)
    \/ \E k \in Keys, v \in Values : SetInsert(k, v)
    \/ \E k \in Keys : SetDelete(k)

\* build, insert, delete and the lookup find
SetNext ==
    \/ SetChange
    \/ \E k \in Keys : SetFind(k)

SetSpec == Init /\ [][SetNext]_vars

\* build, insert, delete and the queries in key order
OrdNext ==
    \/ SetChange
    \/ SetIterOrd
    \/ SetFindMin
    \/ SetFindMax
    \/ \E k \in Keys : SetFindNext(k)
    \/ \E k \in Keys : SetFindPrev(k)

OrdSpec == Init /\ [][OrdNext]_vars

\* Set.insert calls only, on an empty Set
InsertNext == \E k \in Keys, v \in Values : SetInsert(k, v)

InsertSpec == Init /\ [][InsertNext]_vars

\* ------------------------------------------------------------------------
\* Properties
\* ------------------------------------------------------------------------
\* no two pairs of the live part [0, size) of the backing sequence share a key
UniqueKeys(self) ==
    \A p, q \in 1..self.KV.size :
        p # q => key(self.KV.A[p]) # key(self.KV.A[q])

RECURSIVE FloorLog2(_)
FloorLog2(n) == IF n <= 1 THEN 0 ELSE 1 + FloorLog2(n \div 2)

\* C1: after every valid insert_at/insert_first/insert_last and
\* delete_at/delete_first/delete_last call on a DynamicArraySequence with
\* r = 2 that started empty, lower <= size <= upper and size is the number
\* of inserts minus the number of deletes.
C1_BoundsAndCount ==
    /\ dyn_seq.lower <= dyn_seq.size
    /\ dyn_seq.size <= dyn_seq.upper
    /\ dyn_seq.upper = Len(dyn_seq.A)
    /\ dyn_seq.lower = Len(dyn_seq.A) \div (dyn_seq.r * dyn_seq.r)
    /\ dyn_seq.size = inserts - deletes

\* a delete in the middle that shrank the buffer, after inserts that grew it
C1_Witness ==
    /\ call.op = "delete_at"
    /\ call.alloc
    /\ inserts = 4
    /\ deletes = 2
    /\ dyn_seq.size = 2
    /\ dyn_seq.upper = 4

\* C2: hysteresis: an insert_last that reallocates is never immediately
\* followed by a delete_last that reallocates, and a delete_last that
\* reallocates is never immediately followed by an insert_last that
\* reallocates.
C2_Hysteresis ==
    [][/\ (call.op = "insert_last" /\ call.alloc /\ call'.op = "delete_last")
            => ~call'.alloc
       /\ (call.op = "delete_last" /\ call.alloc /\ call'.op = "insert_last")
            => ~call'.alloc]_vars

\* C3: n insert_last calls on an empty DynamicArraySequence with r = 2
\* reallocate at most floor(log2(n)) + 1 times.
C3_LogReallocs ==
    inserts >= 1 => reallocs <= FloorLog2(inserts) + 1

\* the 8th insert_last is the 4th call that reallocates
C3_Witness ==
    /\ call.op = "insert_last"
    /\ call.alloc
    /\ inserts = 8
    /\ reallocs = 4

\* C4: after any sequence of Set.insert calls on an empty Set, no two pairs
\* of the live part of the backing sequence have the same key.
C4_SetUniqueness == UniqueKeys(dyn_set)

\* an insert of a key that was already stored, at a place before the last
C4_Witness ==
    /\ call.op = "insert"
    /\ dyn_set.KV.size = 3
    /\ \E p \in 1..2 : dyn_set.KV.A[p] = call.x

\* C5: Set.find(k) never raises: it returns the stored pair with key k when
\* k is stored and None when k is not stored.
C5_FindNeverRaises ==
    call.op = "find" =>
        /\ call.exc = NoError
        /\ IF HasKey(dyn_set, call.x[1])
           THEN \E p \in 1..dyn_set.KV.size :
                    /\ key(dyn_set.KV.A[p]) = call.x[1]
                    /\ call.ret = dyn_set.KV.A[p]
           ELSE call.ret = None

\* the keys stored in the live part of the backing sequence
KeysOf(self) == {key(self.KV.A[p]) : p \in 1..self.KV.size}

\* ret is the stored pair whose key is the least of the keys in ks
IsPairOfLeast(self, ret, ks) ==
    \E p \in 1..self.KV.size :
        /\ ret = self.KV.A[p]
        /\ key(ret) \in ks
        /\ \A j \in ks : key(ret) <= j

\* ret is the stored pair whose key is the greatest of the keys in ks
IsPairOfGreatest(self, ret, ks) ==
    \E p \in 1..self.KV.size :
        /\ ret = self.KV.A[p]
        /\ key(ret) \in ks
        /\ \A j \in ks : key(ret) >= j

\* C6: find_next(k) for a stored key k returns the stored pair with the
\* smallest key greater than k, and None when k is the largest stored key,
\* whatever the order in which the pairs were inserted (keys unique, as
\* Set.insert keeps them).
C6_FindNext ==
    (call.op = "find_next" /\ UniqueKeys(dyn_set)
        /\ HasKey(dyn_set, call.x[1])) =>
        LET greater == {j \in KeysOf(dyn_set) : j > call.x[1]} IN
        /\ call.exc = NoError
        /\ IF greater = {} THEN call.ret = None
           ELSE IsPairOfLeast(dyn_set, call.ret, greater)

\* C7: find_prev(k) for a stored key k returns the stored pair with the
\* largest key smaller than k, and None when k is the smallest stored key,
\* whatever the order in which the pairs were inserted (keys unique, as
\* Set.insert keeps them).
C7_FindPrev ==
    (call.op = "find_prev" /\ UniqueKeys(dyn_set)
        /\ HasKey(dyn_set, call.x[1])) =>
        LET smaller == {j \in KeysOf(dyn_set) : j < call.x[1]} IN
        /\ call.exc = NoError
        /\ IF smaller = {} THEN call.ret = None
           ELSE IsPairOfGreatest(dyn_set, call.ret, smaller)

Count(L, t) == Cardinality({p \in 1..Len(L) : L[p] = t})

\* C8: on a Set with unique keys iter_ord() returns a list sorted strictly
\* ascending by key that holds exactly the pairs of the live part of the
\* backing sequence: nothing missing, nothing extra, no empty slot.
C8_IterOrd ==
    (call.op = "iter_ord" /\ UniqueKeys(dyn_set)) =>
        /\ call.exc = NoError
        /\ \A p \in 1..(Len(call.ret) - 1) : call.ret[p][1] < call.ret[p + 1][1]
        /\ \A p \in 1..Len(call.ret) : call.ret[p] # None
        /\ Len(call.ret) = dyn_set.KV.size
        /\ \A t \in Tuples : Count(call.ret, t) = Count(Live(dyn_set.KV), t)

\* iter_ord on three pairs stored in descending key order, in a buffer with
\* an empty slot behind them
C8_Witness ==
    /\ call.op = "iter_ord"
    /\ UniqueKeys(dyn_set)
    /\ dyn_set.KV.size = 3
    /\ Len(dyn_set.KV.A) = 4
    /\ dyn_set.KV.A[4] = None
    /\ key(dyn_set.KV.A[1]) > key(dyn_set.KV.A[2])
    /\ key(dyn_set.KV.A[2]) > key(dyn_set.KV.A[3])
    /\ Len(call.ret) = 3

\* the (TLA+) position of the first live pair with key k
FirstPos(self, k) ==
    CHOOSE p \in 1..self.KV.size :
        /\ key(self.KV.A[p]) = k
        /\ \A q \in 1..(p - 1) : key(self.KV.A[q]) # k

C10_DeleteFrame ==
    [][call'.op = "delete" =>
        LET k == call'.x[1] IN
        /\ call'.exc = NoError
        /\ IF HasKey(dyn_set, k)
           THEN /\ dyn_set'.KV.size = dyn_set.KV.size - 1
                /\ ~HasKey(dyn_set', k)
                /\ Live(dyn_set'.KV)
                       = SelectSeq(Live(dyn_set.KV), LAMBDA kv : key(kv) # k)
           ELSE dyn_set' = dyn_set]_vars

\* C11: build(X) on a newly constructed DynamicArraySequence followed by
\* get_at(0), ..., get_at(len(X) - 1) reproduces X in order, and the size is
\* len(X).
C11_BuildRoundTrip ==
    [][(call'.op = "build" /\ dyn_seq = NewDynamicArraySequence(2)) =>
        /\ call'.exc = NoError
        /\ dyn_seq'.size = Len(call'.x)
        /\ \A i \in 0..(Len(call'.x) - 1) :
               /\ get_at(dyn_seq', i).exc = NoError
               /\ get_at(dyn_seq', i).ret = call'.x[i + 1]]_vars

\* build of a list of four items, not all the same, on a new sequence
C11_Witness ==
    /\ call.op = "build"
    /\ Len(call.x) = 4
    /\ call.x[1] # call.x[2]
    /\ inserts = 4
    /\ deletes = 0
    /\ dyn_seq.size = 4

\* C12: insert_at(i, x) with 0 <= i <= size grows the size by one, puts x at
\* index i, leaves the items at indices < i in place and moves every item at
\* an index j >= i to j + 1, whether or not the buffer is reallocated.
C12_InsertAt ==
    [][(call'.op = "insert_at" /\ call'.i >= 0 /\ call'.i <= dyn_seq.size) =>
        LET i == call'.i
            old == Live(dyn_seq)
            new == Live(dyn_seq')
        IN /\ call'.exc = NoError
           /\ dyn_seq'.size = dyn_seq.size + 1
           /\ new[i + 1] = call'.x
           /\ \A p \in 1..i : new[p] = old[p]
           /\ \A p \in (i + 1)..dyn_seq.size : new[p + 1] = old[p]]_vars

\* an insert_at in the middle that reallocated the buffer
C12_Witness ==
    /\ call.op = "insert_at"
    /\ call.exc = NoError
    /\ call.alloc
    /\ call.i = 1
    /\ dyn_seq.size = 4
    /\ dyn_seq.A[3] # dyn_seq.A[4]

\* C13: delete_at(i) with 0 <= i < size returns the item that was at index
\* i, shrinks the size by one, leaves the items at indices < i in place and
\* moves every item at an index j > i to j - 1, whether or not the buffer is
\* reallocated.
C13_DeleteAt ==
    [][(call'.op = "delete_at" /\ call'.i >= 0 /\ call'.i < dyn_seq.size) =>
        LET i == call'.i
            old == Live(dyn_seq)
            new == Live(dyn_seq')
        IN /\ call'.exc = NoError
           /\ call'.ret = old[i + 1]
           /\ dyn_seq'.size = dyn_seq.size - 1
           /\ \A p \in 1..i : new[p] = old[p]
           /\ \A p \in (i + 2)..dyn_seq.size : new[p - 1] = old[p]]_vars

\* a delete_at before the end that reallocated the buffer
C13_Witness ==
    /\ call.op = "delete_at"
    /\ call.exc = NoError
    /\ call.alloc
    /\ call.i = 0
    /\ dyn_seq.size = 2
    /\ dyn_seq.A[1] # dyn_seq.A[2]

DeleteOps == {"delete_at", "delete_first", "delete_last"}

\* the sequence is as valid calls leave it: items in the slots [0, size),
\* None in the slots behind them, bounds computed from the capacity
WellFormed(self) ==
    /\ self.size >= 0
    /\ self.size <= Len(self.A)
    /\ \A p \in 1..Len(self.A) : (self.A[p] # None) <=> (p <= self.size)
    /\ self.upper = Len(self.A)
    /\ self.lower = Len(self.A) \div (self.r * self.r)

\* C14: get_at(i) and set_at(i, x) fail with IndexError whenever i is outside
\* [0, size), also for size <= i < capacity and for negative i, and set_at
\* then leaves the buffer unchanged.
C14_GetSetIndexError ==
    [][(/\ call'.op \in {"get_at", "set_at"}
        /\ WellFormed(dyn_seq)
        /\ (call'.i < 0 \/ call'.i >= dyn_seq.size)) =>
        /\ call'.exc = IndexError
        /\ dyn_seq' = dyn_seq]_vars

\* C15: insert_at(i, x) with i < 0 or i > size fails with IndexError and
\* leaves the size, the capacity, the bounds and every slot unchanged.
C15_InsertAtIndexError ==
    [][(/\ call'.op = "insert_at"
        /\ WellFormed(dyn_seq)
        /\ (call'.i < 0 \/ call'.i > dyn_seq.size)) =>
        /\ call'.exc = IndexError
        /\ dyn_seq' = dyn_seq]_vars

\* C16: delete_at(i) with i < 0 or i >= size, and delete_first / delete_last
\* on a sequence of size 0 whatever its capacity, fail with IndexError and
\* leave the sequence unchanged: the size never becomes negative.
C16_DeleteAtIndexError ==
    [][(/\ call'.op \in DeleteOps
        /\ WellFormed(dyn_seq)
        /\ (call'.i < 0 \/ call'.i >= dyn_seq.size)) =>
        /\ call'.exc = IndexError
        /\ dyn_seq' = dyn_seq
        /\ dyn_seq'.size >= 0]_vars

\* C17: on every non-empty Set made by build/insert/delete calls, find_min()
\* returns the stored pair with the smallest key and find_max() the stored
\* pair with the largest key, and neither call changes the Set.
C17_FindMinMax ==
    [][(call'.op \in {"find_min", "find_max"} /\ dyn_set.KV.size > 0) =>
        /\ call'.exc = NoError
        /\ dyn_set' = dyn_set
        /\ call'.op = "find_min" =>
               IsPairOfLeast(dyn_set, call'.ret, KeysOf(dyn_set))
        /\ call'.op = "find_max" =>
               IsPairOfGreatest(dyn_set, call'.ret, KeysOf(dyn_set))]_vars

\* find_min on three pairs whose smallest key is stored between the other
\* two, in a buffer with an empty slot behind them
C17_Witness ==
    /\ call.op = "find_min"
    /\ dyn_set.KV.size = 3
    /\ Len(dyn_set.KV.A) = 4
    /\ key(dyn_set.KV.A[2]) < key(dyn_set.KV.A[1])
    /\ key(dyn_set.KV.A[2]) < key(dyn_set.KV.A[3])
    /\ call.ret = dyn_set.KV.A[2]

\* C18: find_min() and find_max() on an empty Set, a new one or one whose
\* pairs have all been deleted, fail with an error (the ValueError of min()
\* and max() of an empty list is the code's empty-collection error), return
\* neither a pair nor None, and leave the Set unchanged.
C18_FindMinMaxEmpty ==
    [][(call'.op \in {"find_min", "find_max"} /\ dyn_set.KV.size = 0) =>
        /\ call'.exc = ValueError
        /\ call'.ret = None
        /\ dyn_set' = dyn_set]_vars

\* find_max on a Set whose pairs have all been deleted: the buffer is
\* allocated and every slot is None
C18_Witness ==
    /\ call.op = "find_max"
    /\ call.exc = ValueError
    /\ dyn_set.KV.size = 0
    /\ Len(dyn_set.KV.A) > 0

C20_BuildClears ==
    [][(call'.op = "build" /\ dyn_seq.size > 0) =>
        /\ Live(dyn_seq') = call'.x
        /\ dyn_seq'.size = Len(call'.x)]_vars

\* the number of distinct keys in a list of tuples
DistinctKeys(X) == Cardinality({X[p][1] : p \in 1..Len(X)})

\* C21: a Set created from an initial list X with Set.build(X) has unique
\* keys for every X, also when a key occurs more than once in X: no two
\* stored pairs share a key and len(Set) is the number of distinct keys of X.
C21_BuildUniqueness ==
    [][(call'.op = "build" /\ dyn_set = NewSet) =>
        /\ UniqueKeys(dyn_set')
        /\ dyn_set'.KV.size = DistinctKeys(call'.x)]_vars

\* C22: from every reachable state insert_at(size, x) gives the same
\* resulting state (contents, size, capacity, bounds) as insert_last(x), and
\* on a non-empty sequence delete_at(0) gives the same resulting state and
\* returned value as delete_first().
C22_BoundaryEquivalence ==
    /\ \A x \in Elems :
           LET ia == insert_at(dyn_seq, dyn_seq.size, x)
               il == insert_last(dyn_seq, x)
           IN /\ ia.exc = NoError
              /\ il.exc = NoError
              /\ ia.self = il.self
    /\ dyn_seq.size > 0 =>
           LET da == delete_at(dyn_seq, 0)
               df == delete_first(dyn_seq)
           IN /\ da.exc = NoError
              /\ df.exc = NoError
              /\ da.self = df.self
              /\ da.ret = df.ret

\* an insert_at at index size (the size before the call) that reallocated,
\* on a sequence holding different items
C22_Witness ==
    /\ call.op = "insert_at"
    /\ call.i = dyn_seq.size - 1
    /\ call.alloc
    /\ dyn_seq.size = 4
    /\ dyn_seq.A[1] # dyn_seq.A[2]

InsertOps == {"insert_at", "insert_first", "insert_last"}

\* C23 as stated: an insert call reallocates the buffer only if the new size
\* (size + 1) would exceed upper, not when the new element still fits, and
\* the new capacity is then exactly (size + 1) * r.
C23_GrowthTrigger ==
    [][(call'.op \in InsertOps /\ call'.alloc) =>
        /\ dyn_seq.size + 1 > dyn_seq.upper
        /\ Len(dyn_seq'.A) = (dyn_seq.size + 1) * dyn_seq.r]_vars

\* C23 amended: an insert call reallocates the buffer only if the new size
\* (size + 1) would reach or exceed upper, so also when the new element
\* would fill the last free slot, and the new capacity is then exactly
\* (size + 1) * r.
C23_GrowthTriggerAmended ==
    [][(call'.op \in InsertOps /\ call'.alloc) =>
        /\ dyn_seq.size + 1 >= dyn_seq.upper
        /\ Len(dyn_seq'.A) = (dyn_seq.size + 1) * dyn_seq.r]_vars

\* an insert_last into the last free slot of a buffer of capacity 4, which
\* reallocates to capacity 8
C23_Witness ==
    /\ call.op = "insert_last"
    /\ call.alloc
    /\ dyn_seq.size = 4
    /\ Len(dyn_seq.A) = 8
    /\ reallocs = 3

\* C24: after a valid delete call has reduced the size to n the buffer is
\* reallocated if and only if n <= lower (lower of the capacity before the
\* call); the new capacity is then exactly max(n, 1) * r, and otherwise the
\* capacity is unchanged.
C24_ShrinkTrigger ==
    [][(call'.op \in DeleteOps /\ call'.exc = NoError) =>
        /\ call'.alloc <=> (dyn_seq'.size <= dyn_seq.lower)
        /\ call'.alloc =>
               Len(dyn_seq'.A) = Max(dyn_seq'.size, 1) * dyn_seq.r
        /\ ~call'.alloc => Len(dyn_seq'.A) = Len(dyn_seq.A)]_vars

\* four inserts give capacity 8, the second delete_last gives size 2 and
\* capacity 4
C24_Witness ==
    /\ call.op = "delete_last"
    /\ call.alloc
    /\ inserts = 4
    /\ deletes = 2
    /\ reallocs = 4
    /\ dyn_seq.size = 2
    /\ Len(dyn_seq.A) = 4

\* C25: every reallocation replaces the buffer with one of a different
\* capacity: no insert or delete call allocates a buffer whose capacity
\* equals the capacity of the buffer it replaces.
C25_DifferentCapacity ==
    [][call'.alloc => Len(dyn_seq'.A) # Len(dyn_seq.A)]_vars

\* the list L with x put at (0-based) index i / without its item at index i
ListInsert(L, i, x) == SubSeq(L, 1, i) \o <<x>> \o SubSeq(L, i + 1, Len(L))

ListRemove(L, i) == SubSeq(L, 1, i) \o SubSeq(L, i + 2, Len(L))

\* C26: after any sequence of valid insert/delete/set_at calls from empty,
\* every slot at an index >= size is None and the slots [0, size) hold
\* exactly the live elements in sequence order: each call changes the live
\* part as it changes the sequence, and no deleted element stays in a slot
\* beyond the size.
C26_LiveSlots ==
    [][/\ \A p \in 1..Len(dyn_seq'.A) :
              (p > dyn_seq'.size) <=> (dyn_seq'.A[p] = None)
       /\ call'.op \in InsertOps =>
              Live(dyn_seq') = ListInsert(Live(dyn_seq), call'.i, call'.x)
       /\ call'.op \in DeleteOps =>
              /\ Live(dyn_seq') = ListRemove(Live(dyn_seq), call'.i)
              /\ call'.ret = Live(dyn_seq)[call'.i + 1]
       /\ call'.op = "set_at" =>
              Live(dyn_seq') = [Live(dyn_seq) EXCEPT ![call'.i + 1] = call'.x]
       /\ call'.op = "get_at" => Live(dyn_seq') = Live(dyn_seq)]_vars

\* a delete_first that did not reallocate: three items left in a buffer of
\* capacity 8
C26_Witness ==
    /\ call.op = "delete_first"
    /\ ~call.alloc
    /\ dyn_seq.size = 3
    /\ Len(dyn_seq.A) = 8
    /\ dyn_seq.A[4] = None

\* C27: after every valid insert or delete call on a DynamicArraySequence
\* with r >= 2 the size is strictly smaller than the capacity; only the
\* newly constructed sequence has size = capacity = 0.
C27_NeverFull ==
    IF inserts + deletes = 0
    THEN dyn_seq.size = 0 /\ Len(dyn_seq.A) = 0
    ELSE dyn_seq.size < Len(dyn_seq.A)

\* r = 3: the third insert reallocated to capacity 9
C27_Witness ==
    /\ dyn_seq.r = 3
    /\ call.op \in InsertOps
    /\ call.alloc
    /\ dyn_seq.size = 3
    /\ Len(dyn_seq.A) = 9

\* the nodes on the cycle: the nodes reached from the last node's next
RECURSIVE Orbit(_, _, _)
Orbit(self, node, seen) ==
    IF node \in seen THEN seen
    ELSE Orbit(self, NextOf(self, node), seen \cup {node})

\* the node made first is the last node of the list (build inserts at the
\* front, in reverse order)
CycleLength(self) == Cardinality(Orbit(self, NextOf(self, <<1>>), {}))

\* C28: for every list built by build(X) whose last node is linked to a node
\* of the list with change_last, when the fast pointer is first found on the
\* slow pointer's node, the steps F of the fast pointer minus the steps S of
\* the slow pointer are the number of nodes in the cycle.
C28_CycleLength ==
    cycle.met => cycle.metF - cycle.metS = CycleLength(cycle)

IsSorted(A) == \A p \in 1..(Len(A) - 1) : A[p] <= A[p + 1]

ItemsOf(A) == {A[p] : p \in 1..Len(A)}

\* A and B hold the same items, each as many times
IsPermutation(A, B) ==
    /\ Len(A) = Len(B)
    /\ \A v \in ItemsOf(A) \cup ItemsOf(B) : Count(A, v) = Count(B, v)

\* a call that has returned left A sorted and a permutation of the input
SortedWhenDone ==
    sort.pc = "done" => IsSorted(sort.A) /\ IsPermutation(sort.A, sort.A0)

\* after the step for index i the suffix A[i:] holds the largest len(A) - i
\* items in sorted order
SelectionInv ==
    (sort.alg = "selection_sort" /\ sort.steps > 0) =>
        LET n == Len(sort.A)
            suffix == SubSeq(sort.A, sort.i + 1, n)
            prefix == SubSeq(sort.A, 1, sort.i)
        IN /\ IsSorted(suffix)
           /\ Len(suffix) = n - sort.i
           /\ \A p \in 1..Len(prefix), q \in 1..Len(suffix) :
                  prefix[p] <= suffix[q]
           /\ IsPermutation(sort.A, sort.A0)

\* after the step for index i the prefix A[:i+1] holds the first i + 1 input
\* items in sorted order
InsertionInv ==
    (sort.alg = "insertion_sort" /\ sort.steps > 0) =>
        LET n == Len(sort.A) IN
        /\ IsSorted(SubSeq(sort.A, 1, sort.i + 1))
        /\ IsPermutation(SubSeq(sort.A, 1, sort.i + 1),
                         SubSeq(sort.A0, 1, sort.i + 1))
        /\ SubSeq(sort.A, sort.i + 2, n) = SubSeq(sort.A0, sort.i + 2, n)

\* C29: for every input list, selection_sort and insertion_sort terminate
\* leaving A sorted in increasing order and a permutation of the input;
\* after selection_sort's outer step for index i the suffix A[i:] holds the
\* largest len(A) - i items in sorted order, after insertion_sort's outer
\* step for index i the prefix A[:i+1] holds the first i + 1 input items in
\* sorted order.
C29_Sorts ==
    /\ [](SortedWhenDone /\ SelectionInv /\ InsertionInv)
    /\ (sort.pc = "loop") ~> (sort.pc = "done")

\* selection_sort has returned from a list of four items, one of them
\* twice, that was not sorted
C29_Witness ==
    /\ sort.pc = "done"
    /\ sort.alg = "selection_sort"
    /\ sort.A0 = <<3, 1, 3, 2>>
    /\ sort.A = <<1, 2, 3, 3>>
    /\ sort.steps = 3

====
